---- MODULE Spec2Model ----
(***************************************************************************)
(* UniHive: the request / accept / chat access-control state machine.      *)
(*                                                                         *)
(* The data service is modelled as tables guarded by the row-level         *)
(* security policies of supabase/migrations; the pages are modelled as the *)
(* handlers they run, guarded by the render conditions that offer their    *)
(* controls.  Spec follows one browser session through its pages; what the *)
(* other members' clients send reaches the data service as the Direct...   *)
(* requests, for which the policies are the only guard.                    *)
(*                                                                         *)
(* Three specifications share the variables:                               *)
(*   Spec       products, negotiations (chats) and messages                *)
(*   SpecAdmin  the admin management view and the admins table             *)
(*   SpecView   one Messages view: selection, history fetch, change feed   *)
(*                                                                         *)
(* In Spec a request to the data service is one step.  In SpecAdmin a     *)
(* write on admins is a statement in flight between the handler's await    *)
(* and its return: its policy is evaluated in the snapshot taken when it   *)
(* begins, its rows change when it commits, so that the statements of two  *)
(* sessions overlap.                                                       *)
(*                                                                         *)
(* Library calls are read by their evident meaning: `.maybesingle()` in    *)
(* ProductDetail.tsx is read as supabase-js `maybeSingle()`.               *)
(***************************************************************************)
EXTENDS Integers, Sequences, FiniteSets, TLC

\* ------------------------------------------------------------------ bounds
MaxProducts == 1
MaxChats == 1
MaxMessages == 1
MaxViewMessages == 2
MaxRequests == 2

\* ------------------------------------------------------------- the members
\* profiles rows; "u1" is the member whose email is '21bcs6987@cuchd.in'
Users == {"u1", "u2", "u3"}
MasterAdminUser == "u1"

Statuses == {"pending", "accepted", "rejected", "completed"}

\* text is a sequence of characters; " " is white space
Texts == {<<" ">>, <<"h">>, <<" ", "h", " ">>}

VARIABLES
    products,      \* table products: id -> [title, description, price, category,
                   \*   condition, image_url, seller_id]
    chats,         \* table chats: id -> [product_id, buyer_id, seller_id, status]
    messages,      \* table messages in creation order: [chat_id, sender_id, content]
    admins,        \* table admins: member -> is_master
    session,       \* the member signed in to the browser session, or NoSession
    selectedChat,  \* Messages page of the session: the selected chat object
    requestSent,   \* ProductDetail pages of the session: products with requestSent
    error,         \* the error state of the page that ran the last handler
    adminsLocal,   \* admin view of each member: the fetched admins list
    isMasterAdmin, \* admin view of each member: the isMasterAdmin flag
    statements,    \* admin view of each member: its statement on admins in flight
    profiles,      \* table profiles: member -> [username, full_name]
    login,         \* the Login page: mode, isAdminLogin, error, successMessage,
                   \* request (what the last submission sent to the auth service)
    view,          \* one Messages view in detail (SpecView): mounted, loading,
                   \* fetchingChats (a call of fetchChats in flight),
                   \* chatsEvent (a change of chats that the feed of the
                   \* chat subscription has not delivered yet),
                   \* messages (ids displayed), fetches
                   \* (fetchMessages in flight), channels (the filters of the
                   \* message subscriptions), events (change feed in flight)
    profileUpdate, \* the Profile page: the update of updateProfile in flight
    chatsLocal,    \* the Messages view: the chats state, id -> status
    statusRequest, \* the Messages view: the update of handleStatusChange in flight
    isAdmin,       \* App: the isAdmin state, which guards the admin route
    adminChecks    \* App: the calls of checkIfAdmin in flight, [userId,
                   \* answered, data]

pageVars == <<session, selectedChat, requestSent, error>>
adminVars == <<admins, adminsLocal, isMasterAdmin, statements>>
appVars == <<isAdmin, adminChecks>>
shellVars == <<profiles, login, profileUpdate, appVars>>
listVars == <<chatsLocal, statusRequest>>
vars == <<products, chats, messages, admins, session, selectedChat, requestSent,
          error, adminsLocal, isMasterAdmin, statements, profiles, login, view,
          profileUpdate, chatsLocal, statusRequest, isAdmin, adminChecks>>

\* ------------------------------------------------------------------ helpers
Max(S) == CHOOSE x \in S : \A y \in S : y <= x
NewId(table) == IF DOMAIN table = {} THEN 1 ELSE Max(DOMAIN table) + 1

RECURSIVE trimStart(_)
trimStart(s) ==
    IF s # <<>> /\ Head(s) = " " THEN trimStart(Tail(s)) ELSE s

RECURSIVE trimEnd(_)
trimEnd(s) ==
    IF s # <<>> /\ s[Len(s)] = " " THEN trimEnd(SubSeq(s, 1, Len(s) - 1)) ELSE s

\* String.prototype.trim
trim(s) == trimEnd(trimStart(s))

NoSession == "none"
NoChat == [id |-> 0, status |-> ""]
NoStatement == [op |-> "none"]
NoStatusRequest == [chat_id |-> 0]
NoProfileUpdate == [id |-> "none"]

\* the Login page as it mounts; NoRequest: nothing sent to the auth service
NoRequest == [kind |-> "none"]
NoLogin == [mode |-> "signin", isAdminLogin |-> FALSE, error |-> "",
            successMessage |-> "", request |-> NoRequest]

\* the Messages view before it is mounted and after it is closed
NoView == [mounted |-> FALSE, loading |-> FALSE, fetchingChats |-> FALSE,
           chatsEvent |-> FALSE, messages |-> <<>>,
           fetches |-> {}, channels |-> <<>>, events |-> <<>>]

\* ------------------------------------------- row-level security (auth.uid())
UsersCanViewTheirOwnChats(uid, row) == uid \in {row.buyer_id, row.seller_id}

BuyersCanCreateChatRequests(uid, row) == uid = row.buyer_id

\* a policy that lets either participant update the row
ParticipantsCanUpdateChatStatus(uid, row) == uid \in {row.buyer_id, row.seller_id}

SellersCanUpdateChatStatus(uid, row) == uid = row.seller_id

\* row-level security is enabled on chats and no policy is FOR DELETE
ChatsDeletePolicy(uid, row) == FALSE

\* the insert policy without its status condition
ChatParticipantsCanInsertMessages(uid, row) ==
    \E c \in DOMAIN chats :
        /\ c = row.chat_id
        /\ uid \in {chats[c].buyer_id, chats[c].seller_id}

ChatParticipantsCanSendMessages(uid, row) ==
    \E c \in DOMAIN chats :
        /\ c = row.chat_id
        /\ uid \in {chats[c].buyer_id, chats[c].seller_id}
        /\ chats[c].status = "accepted"

ChatParticipantsCanViewMessages(uid, row) ==
    \E c \in DOMAIN chats :
        /\ c = row.chat_id
        /\ uid \in {chats[c].buyer_id, chats[c].seller_id}
        /\ chats[c].status = "accepted"

\* row-level security is enabled on messages and no policy is FOR UPDATE
MessagesUpdatePolicy(uid, row) == FALSE

\* a policy that lets the sender delete the row
SendersCanDeleteMessages(uid, row) == uid = row.sender_id

\* row-level security is enabled on messages and no policy is FOR DELETE
MessagesDeletePolicy(uid, row) == FALSE

AuthenticatedUsersCanInsertProducts(uid, row) == uid = row.seller_id

UsersCanDeleteOwnProducts(uid, row) == uid = row.seller_id

AdminsCanViewAdmins(uid) == uid \in DOMAIN admins

\* a policy that lets every admin manage the admins
AdminsCanManageAdmins(uid) == uid \in DOMAIN admins

MasterAdminsCanManageAdmins(uid) == uid \in DOMAIN admins /\ admins[uid]

\* ------------------------------------------------- the data service requests
\* Each yields [table |-> the table after the request, error |-> its error].
\* A row an UPDATE or DELETE policy hides is skipped without an error; a row an
\* INSERT policy refuses, or a foreign key violation, is an error.

\* insert into chats
InsertChat(uid, row) ==
    IF row.product_id \notin DOMAIN products
    THEN [table |-> chats, error |-> "violates foreign key constraint"]
    ELSE IF ~BuyersCanCreateChatRequests(uid, row)
    THEN [table |-> chats, error |-> "violates row-level security policy"]
    ELSE [table |-> (NewId(chats) :> row) @@ chats, error |-> ""]

\* update chats set status = ... where id = ...
UpdateChatStatus(uid, id, status) ==
    [table |-> [c \in DOMAIN chats |->
                   IF c = id /\ SellersCanUpdateChatStatus(uid, chats[c])
                   THEN [chats[c] EXCEPT !.status = status]
                   ELSE chats[c]],
     error |-> ""]

\* delete from chats where id = ...
DeleteChat(uid, id) ==
    LET hit == {c \in DOMAIN chats : c = id /\ ChatsDeletePolicy(uid, chats[c])}
    IN  IF \E i \in 1..Len(messages) : messages[i].chat_id \in hit
        THEN [table |-> chats, error |-> "violates foreign key constraint"]
        ELSE [table |-> [c \in DOMAIN chats \ hit |-> chats[c]], error |-> ""]

\* insert into messages
InsertMessage(uid, row) ==
    IF row.chat_id \notin DOMAIN chats
    THEN [table |-> messages, error |-> "violates foreign key constraint"]
    ELSE IF ~ChatParticipantsCanSendMessages(uid, row)
    THEN [table |-> messages, error |-> "violates row-level security policy"]
    ELSE [table |-> Append(messages, row), error |-> ""]

\* update messages set content = ... where id = ...
UpdateMessage(uid, id, content) ==
    [table |-> [i \in 1..Len(messages) |->
                   IF i = id /\ MessagesUpdatePolicy(uid, messages[i])
                   THEN [messages[i] EXCEPT !.content = content]
                   ELSE messages[i]],
     error |-> ""]

\* delete from messages where id = ...
DeleteMessage(uid, id) ==
    [table |-> IF id \in 1..Len(messages) /\ MessagesDeletePolicy(uid, messages[id])
               THEN SubSeq(messages, 1, id - 1) \o SubSeq(messages, id + 1, Len(messages))
               ELSE messages,
     error |-> ""]

\* insert into products: every column is NOT NULL, and a column the request
\* carries no value for is null
ProductColumns == {"title", "description", "price", "category", "image_url",
                   "condition", "seller_id"}

InsertProduct(uid, row) ==
    IF ProductColumns \ DOMAIN row # {}
    THEN [table |-> products, error |-> "violates not-null constraint"]
    ELSE IF ~AuthenticatedUsersCanInsertProducts(uid, row)
    THEN [table |-> products, error |-> "violates row-level security policy"]
    ELSE [table |-> (NewId(products) :> row) @@ products, error |-> ""]

\* delete from products where id = ...
DeleteProduct(uid, id) ==
    LET hit == {p \in DOMAIN products :
                    p = id /\ UsersCanDeleteOwnProducts(uid, products[p])}
    IN  IF \E c \in DOMAIN chats : chats[c].product_id \in hit
        THEN [table |-> products, error |-> "violates foreign key constraint"]
        ELSE [table |-> [p \in DOMAIN products \ hit |-> products[p]],
              error |-> ""]

\* profiles policies: insert and update of one's own row; username is UNIQUE
UsersCanInsertTheirOwnProfile(uid, id) == uid = id

UsersCanUpdateOwnProfile(uid, id) == uid = id

\* insert into profiles
InsertProfile(uid, id, row) ==
    IF ~UsersCanInsertTheirOwnProfile(uid, id)
    THEN [table |-> profiles, error |-> "violates row-level security policy"]
    ELSE IF id \in DOMAIN profiles
            \/ \E p \in DOMAIN profiles : profiles[p].username = row.username
    THEN [table |-> profiles, error |-> "duplicate key value"]
    ELSE [table |-> (id :> row) @@ profiles, error |-> ""]

ProfileColumns == {"id", "username", "full_name", "avatar_url", "course",
                   "created_at"}

\* a request that names a column the table does not have is refused
UnknownColumns(columns) == columns \ ProfileColumns

\* the update without the unique index on username
UpdateProfileUnchecked(uid, id, name) ==
    IF ~(id \in DOMAIN profiles /\ UsersCanUpdateOwnProfile(uid, id))
    THEN [table |-> profiles, error |-> ""]
    ELSE [table |-> [profiles EXCEPT ![id].username = name], error |-> ""]

\* update profiles set username = ... where id = ...
UpdateProfile(uid, id, name) ==
    IF ~(id \in DOMAIN profiles /\ UsersCanUpdateOwnProfile(uid, id))
    THEN [table |-> profiles, error |-> ""]
    ELSE IF \E p \in DOMAIN profiles \ {id} : profiles[p].username = name
    THEN [table |-> profiles, error |-> "duplicate key value"]
    ELSE [table |-> [profiles EXCEPT ![id].username = name], error |-> ""]

\* select * from admins, as uid sees table
selectAdmins(uid, table) == IF uid \in DOMAIN table THEN table ELSE <<>>

\* A statement on admins that the data service has begun for uid.  Its policy
\* is evaluated in the snapshot the statement takes when it begins.
BeginStatement(uid, op, id, is_master) ==
    [op |-> op, uid |-> uid, id |-> id, is_master |-> is_master,
     pass |-> MasterAdminsCanManageAdmins(uid)]

\* what the statement st makes of table when it commits
ExecuteStatement(st, table) ==
    CASE st.op = "insert" ->
            IF ~st.pass
            THEN [table |-> table, error |-> "violates row-level security policy"]
            ELSE IF st.id \in DOMAIN table
            THEN [table |-> table, error |-> "duplicate key value"]
            ELSE [table |-> (st.id :> st.is_master) @@ table, error |-> ""]
      [] st.op = "update" ->
            [table |-> [a \in DOMAIN table |->
                           IF a = st.id /\ st.pass THEN st.is_master ELSE table[a]],
             error |-> ""]
      [] st.op = "delete" ->
            [table |-> [a \in {x \in DOMAIN table : ~(x = st.id /\ st.pass)} |->
                           table[a]],
             error |-> ""]

\* the statements run alone: insert into / update / delete from admins
InsertAdmin(uid, id, is_master) ==
    ExecuteStatement(BeginStatement(uid, "insert", id, is_master), admins)

UpdateAdmin(uid, id, is_master) ==
    ExecuteStatement(BeginStatement(uid, "update", id, is_master), admins)

DeleteAdmin(uid, id) ==
    ExecuteStatement(BeginStatement(uid, "delete", id, FALSE), admins)

\* the local part of each member's email, which is the username given to a
\* new profile
username == [u \in Users |-> IF u = MasterAdminUser THEN "21bcs6987" ELSE u]

\* upsert into admins: the insert policy is checked for the row proposed, then
\* a row in conflict is updated
UpsertAdmin(uid, id, is_master) ==
    IF ~MasterAdminsCanManageAdmins(uid)
    THEN [table |-> admins, error |-> "violates row-level security policy"]
    ELSE [table |-> (id :> is_master) @@ admins, error |-> ""]

\* ------------------------------------------------------------ initial state
\* The tables after the migrations: no products, chats or messages; the member
\* of the hardcoded email is the master admin.  Nobody is signed in.
Init ==
    /\ products = <<>>
    /\ chats = <<>>
    /\ messages = <<>>
    /\ admins = (MasterAdminUser :> TRUE)
    /\ session = NoSession
    /\ selectedChat = NoChat
    /\ requestSent = {}
    /\ error = ""
    /\ adminsLocal = [u \in Users |-> <<>>]
    /\ isMasterAdmin = [u \in Users |-> FALSE]
    /\ statements = [u \in Users |-> NoStatement]
    /\ profiles = [u \in Users |-> [username |-> username[u], full_name |-> username[u]]]
    /\ login = NoLogin
    /\ profileUpdate = NoProfileUpdate
    /\ view = NoView
    /\ chatsLocal = <<>>
    /\ statusRequest = NoStatusRequest
    /\ isAdmin = FALSE
    /\ adminChecks = {}

\* App.checkIfAdmin, when it has completed for the session of uid
checkIfAdmin(uid) == uid = MasterAdminUser \/ uid \in DOMAIN admins

\* ---------------------------------------------------------------------- App
\* onAuthStateChange delivers a session: the pages mount with their state new
\* and checkIfAdmin creates the profile when there is none (the answer to its
\* insert is not looked at)
signIn(u) ==
    /\ session # u
    /\ session' = u
    /\ selectedChat' = NoChat
    /\ requestSent' = {}
    /\ error' = ""
    /\ profiles' = IF u \in DOMAIN profiles
                   THEN profiles
                   ELSE InsertProfile(u, u, [username |-> username[u],
                                             full_name |-> username[u]]).table
    /\ UNCHANGED <<products, chats, messages, adminVars, login, profileUpdate,
                   appVars, view, listVars>>

\* ------------------------------------------------------ NewListing, products
\* The text of the price field is a sequence of characters.  parseFloat reads
\* an optional sign and the digits that follow, and gives NaN when there is
\* no digit; fractions are left out.
DigitValue == ("0" :> 0) @@ ("1" :> 1) @@ ("2" :> 2) @@ ("5" :> 5)

RECURSIVE parseDigits(_, _)
parseDigits(s, acc) ==
    IF s = <<>> \/ Head(s) \notin DOMAIN DigitValue THEN acc
    ELSE parseDigits(Tail(s), 10 * acc + DigitValue[Head(s)])

parseFloat(s) ==
    LET neg == s # <<>> /\ Head(s) = "-"
        body == IF neg THEN Tail(s) ELSE s
    IN  IF body = <<>> \/ Head(body) \notin DOMAIN DigitValue
        THEN [nan |-> TRUE, value |-> 0]
        ELSE [nan |-> FALSE,
              value |-> IF neg THEN 0 - parseDigits(body, 0) ELSE parseDigits(body, 0)]

\* a form with every field filled in
FilledForm == [title |-> "t", description |-> "d", price |-> <<"5">>,
               category |-> "c", condition |-> "new", imageUrl |-> "i"]

\* a row of products
Listing(title, description, price, category, condition, image_url, seller_id) ==
    [title |-> title, description |-> description, price |-> price,
     category |-> category, condition |-> condition, image_url |-> image_url,
     seller_id |-> seller_id]

\* NewListing.handleSubmit
handleSubmit(u, form) ==
    LET priceValue == parseFloat(form.price)
        r == InsertProduct(u, Listing(form.title, form.description, priceValue.value,
                                      form.category, form.condition, form.imageUrl, u))
    IN  /\ session = u
        /\ NewId(products) <= MaxProducts
        /\ IF \/ form.title = "" \/ form.description = "" \/ form.price = <<>>
              \/ form.category = "" \/ form.condition = ""
           THEN error' = "Please fill in all required fields" /\ products' = products
           ELSE IF form.imageUrl = ""
           THEN error' = "Please upload an image" /\ products' = products
           ELSE IF priceValue.nan \/ priceValue.value <= 0
           THEN error' = "Please enter a valid price" /\ products' = products
           ELSE products' = r.table /\ error' = r.error
        /\ UNCHANGED <<chats, messages, session, selectedChat, requestSent,
                       adminVars, shellVars, view, listVars>>

\* AdminPortal.handleDeleteProduct: the /admin route exists for isAdmin only
handleDeleteProduct(u, p) ==
    LET r == DeleteProduct(u, p)
    IN  /\ session = u
        /\ checkIfAdmin(u)
        /\ p \in DOMAIN products
        /\ products' = r.table
        /\ error' = r.error
        /\ UNCHANGED <<chats, messages, session, selectedChat, requestSent,
                       adminVars, shellVars, view, listVars>>

\* ------------------------------------------------------------ ProductDetail
\* the rows the requestSent query of fetchProductDetails matches
sentRows(u, p) ==
    {c \in DOMAIN chats :
        /\ UsersCanViewTheirOwnChats(u, chats[c])
        /\ chats[c].product_id = p
        /\ chats[c].buyer_id = u
        /\ chats[c].seller_id = products[p].seller_id}

\* ProductDetail mounts on product p: maybeSingle yields a row only when
\* exactly one matches (more than one is an error, which is ignored)
fetchProductDetails(u, p) ==
    /\ session = u
    /\ p \in DOMAIN products
    /\ requestSent' = IF u # products[p].seller_id /\ Cardinality(sentRows(u, p)) = 1
                      THEN requestSent \cup {p}
                      ELSE requestSent \ {p}
    /\ error' = ""
    /\ UNCHANGED <<products, chats, messages, session, selectedChat, adminVars, shellVars, view, listVars>>

\* the "Request to Buy" button is rendered
BuyButtonShown(u, p) ==
    /\ p \in DOMAIN products
    /\ u # products[p].seller_id
    /\ p \notin requestSent

handleBuyRequest(u, p) ==
    /\ session = u
    /\ BuyButtonShown(u, p)
    /\ IF u = products[p].seller_id
       THEN /\ error' = "You can't buy your own product"
            /\ UNCHANGED <<chats, requestSent>>
       ELSE LET r == InsertChat(u, [product_id |-> p, buyer_id |-> u,
                                    seller_id |-> products[p].seller_id,
                                    status |-> "pending"])
            IN  /\ chats' = r.table
                /\ error' = r.error
                /\ requestSent' = IF r.error = "" THEN requestSent \cup {p}
                                  ELSE requestSent
    /\ UNCHANGED <<products, messages, session, selectedChat, adminVars, shellVars, view, listVars>>

\* ----------------------------------------------------------------- Messages
\* a chat of the list is clicked; the list holds the chats the member may view
handleChatSelect(u, c) ==
    /\ session = u
    /\ c \in DOMAIN chats
    /\ UsersCanViewTheirOwnChats(u, chats[c])
    /\ selectedChat' = [id |-> c, status |-> chats[c].status]
    /\ UNCHANGED <<products, chats, messages, session, requestSent, error,
                   adminVars, shellVars, view, listVars>>

\* the Accept and Decline buttons are rendered
StatusActionsShown(u) ==
    /\ selectedChat # NoChat
    /\ chats[selectedChat.id].seller_id = u
    /\ selectedChat.status = "pending"

handleStatusChange(u, status) ==
    LET r == UpdateChatStatus(u, selectedChat.id, status)
    IN  /\ session = u
        /\ StatusActionsShown(u)
        /\ selectedChat # NoChat
        /\ chats' = r.table
        /\ error' = r.error
        /\ selectedChat' = IF r.error = ""
                           THEN [selectedChat EXCEPT !.status = status]
                           ELSE selectedChat
        /\ UNCHANGED <<products, messages, session, requestSent, adminVars, shellVars, view, listVars>>

\* the message form is rendered and its button is enabled
SendFormShown(newMessage) ==
    /\ selectedChat # NoChat
    /\ selectedChat.status = "accepted"
    /\ trim(newMessage) # <<>>

handleSendMessage(u, newMessage) ==
    LET r == InsertMessage(u, [chat_id |-> selectedChat.id, sender_id |-> u,
                               content |-> trim(newMessage)])
    IN  /\ session = u
        /\ SendFormShown(newMessage)
        /\ trim(newMessage) # <<>> /\ selectedChat # NoChat
        /\ Len(r.table) <= MaxMessages
        /\ messages' = r.table
        /\ error' = r.error
        /\ UNCHANGED <<products, chats, session, selectedChat, requestSent,
                       adminVars, shellVars, view, listVars>>

\* ------------------------------- requests of the other clients of the service
DirectStatuses == {"pending", "accepted"}

DirectInsertProduct(u, seller, price) ==
    LET r == InsertProduct(u, Listing("t", "d", price, "c", "new", "i", seller))
    IN  /\ NewId(products) <= MaxProducts
        /\ products' = r.table
        /\ UNCHANGED <<chats, messages, pageVars, adminVars, shellVars, view, listVars>>

DirectDeleteProduct(u, p) ==
    LET r == DeleteProduct(u, p)
    IN  /\ p \in DOMAIN products
        /\ products' = r.table
        /\ UNCHANGED <<chats, messages, pageVars, adminVars, shellVars, view, listVars>>

DirectInsertChat(u, p, buyer, seller, status) ==
    LET r == InsertChat(u, [product_id |-> p, buyer_id |-> buyer,
                            seller_id |-> seller, status |-> status])
    IN  /\ chats' = r.table
        /\ UNCHANGED <<products, messages, pageVars, adminVars, shellVars, view, listVars>>

DirectUpdateChat(u, c, status) ==
    LET r == UpdateChatStatus(u, c, status)
    IN  /\ c \in DOMAIN chats
        /\ chats' = r.table
        /\ UNCHANGED <<products, messages, pageVars, adminVars, shellVars, view, listVars>>

DirectDeleteChat(u, c) ==
    LET r == DeleteChat(u, c)
    IN  /\ c \in DOMAIN chats
        /\ chats' = r.table
        /\ UNCHANGED <<products, messages, pageVars, adminVars, shellVars, view, listVars>>

DirectInsertMessage(u, c, sender, content) ==
    LET r == InsertMessage(u, [chat_id |-> c, sender_id |-> sender,
                               content |-> content])
    IN  /\ Len(r.table) <= MaxMessages
        /\ messages' = r.table
        /\ UNCHANGED <<products, chats, pageVars, adminVars, shellVars, view, listVars>>

DirectUpdateMessage(u, id, content) ==
    LET r == UpdateMessage(u, id, content)
    IN  /\ id \in 1..Len(messages)
        /\ messages' = r.table
        /\ UNCHANGED <<products, chats, pageVars, adminVars, shellVars, view, listVars>>

DirectDeleteMessage(u, id) ==
    LET r == DeleteMessage(u, id)
    IN  /\ id \in 1..Len(messages)
        /\ messages' = r.table
        /\ UNCHANGED <<products, chats, pageVars, adminVars, shellVars, view, listVars>>

Next ==
    \/ \E u \in Users : signIn(u)
    \/ \E u \in Users : handleSubmit(u, FilledForm)
    \/ \E u \in Users, p \in 1..MaxProducts : handleDeleteProduct(u, p)
    \/ \E u \in Users, p \in 1..MaxProducts : fetchProductDetails(u, p)
    \/ \E u \in Users, p \in 1..MaxProducts :
          NewId(chats) <= MaxChats /\ handleBuyRequest(u, p)
    \/ \E u \in Users, c \in 1..MaxChats : handleChatSelect(u, c)
    \/ \E u \in Users, s \in {"accepted", "rejected"} : handleStatusChange(u, s)
    \/ \E u \in Users, t \in Texts : handleSendMessage(u, t)
    \/ \E u \in Users, s \in Users :
          DirectInsertProduct(u, s, parseFloat(FilledForm.price).value)
    \/ \E u \in Users, p \in 1..MaxProducts : DirectDeleteProduct(u, p)
    \/ \E u \in Users, p \in 1..MaxProducts, b \in Users, s \in Users,
          st \in DirectStatuses :
             NewId(chats) <= MaxChats /\ DirectInsertChat(u, p, b, s, st)
    \/ \E u \in Users, c \in 1..MaxChats, st \in Statuses : DirectUpdateChat(u, c, st)
    \/ \E u \in Users, c \in 1..MaxChats : DirectDeleteChat(u, c)
    \/ \E u \in Users, c \in 1..MaxChats, s \in Users, t \in Texts :
          DirectInsertMessage(u, c, s, t)
    \/ \E u \in Users, id \in 1..MaxMessages, t \in Texts : DirectUpdateMessage(u, id, t)
    \/ \E u \in Users, id \in 1..MaxMessages : DirectDeleteMessage(u, id)

Spec == Init /\ [][Next]_vars

\* ============================================================== SpecAdmin
\* The admin management view.  Every member may have it open; a write it
\* issues is a statement in flight from the handler's await until it commits,
\* so the statements of different sessions overlap.

marketVars == <<products, chats, messages, session, selectedChat, requestSent>>

\* the members whose browser has the admin management view open
AdminSessions == {"u1", "u2"}

\* the local parts of what is typed into the new admin email box
NewAdminEmails == {"u2", "u3", "nobody", ""}

\* the masters of an admins list
masterAdmins(list) == {a \in DOMAIN list : list[a]}

checkMasterAdmin(u) ==
    /\ isMasterAdmin' = [isMasterAdmin EXCEPT
                            ![u] = AdminsCanViewAdmins(u) /\ admins[u]]
    /\ UNCHANGED <<marketVars, shellVars, error, admins, adminsLocal, statements, view, listVars>>

fetchAdmins(u) ==
    /\ adminsLocal' = [adminsLocal EXCEPT ![u] = selectAdmins(u, admins)]
    /\ UNCHANGED <<marketVars, shellVars, error, admins, isMasterAdmin, statements, view, listVars>>

\* App.checkIfAdmin in the session of the member of the hardcoded email:
\* setIsAdmin(true), then the upsert of its master row, whose error is logged
ensureMasterAdmin ==
    /\ admins' = UpsertAdmin(MasterAdminUser, MasterAdminUser, TRUE).table
    /\ UNCHANGED <<marketVars, shellVars, error, adminsLocal, isMasterAdmin,
                   statements, view, listVars>>

\* the handler that adds the member as a master admin
handleAddMasterAdmin(u, emailLocalPart) ==
    LET userData == {p \in DOMAIN profiles : profiles[p].username = emailLocalPart}
    IN  /\ isMasterAdmin[u]
        /\ statements[u].op = "none"
        /\ userData # {}
        /\ error' = ""
        /\ statements' = [statements EXCEPT ![u] =
               BeginStatement(u, "insert", CHOOSE p \in userData : TRUE, TRUE)]
        /\ UNCHANGED <<marketVars, shellVars, admins, adminsLocal, isMasterAdmin, view, listVars>>

\* the Add Admin box is rendered for isMasterAdmin; emailLocalPart is
\* emailParts[0] of the input, and the row is inserted with created_by the
\* member of the session
handleAddAdmin(u, emailLocalPart) ==
    LET userData == {p \in DOMAIN profiles : profiles[p].username = emailLocalPart}
        existingAdmin == {a \in DOMAIN selectAdmins(u, admins) : a \in userData}
    IN  /\ isMasterAdmin[u]
        /\ statements[u].op = "none"
        /\ IF emailLocalPart = ""
           THEN /\ error' = "Invalid email format"
                /\ UNCHANGED statements
           ELSE IF userData = {}
           THEN /\ error' = "User not found"
                /\ UNCHANGED statements
           ELSE IF existingAdmin # {}
           THEN /\ error' = "This user is already an admin"
                /\ UNCHANGED statements
           ELSE /\ error' = ""
                /\ statements' = [statements EXCEPT ![u] =
                       BeginStatement(u, "insert", CHOOSE p \in userData : TRUE, FALSE)]
        /\ UNCHANGED <<marketVars, shellVars, admins, adminsLocal, isMasterAdmin, view, listVars>>

\* the Promote control is rendered for isMasterAdmin on rows not is_master
handlePromoteAdmin(u, adminId) ==
    /\ isMasterAdmin[u]
    /\ statements[u].op = "none"
    /\ adminId \in DOMAIN adminsLocal[u]
    /\ ~adminsLocal[u][adminId]
    /\ error' = ""
    /\ statements' = [statements EXCEPT ![u] = BeginStatement(u, "update", adminId, TRUE)]
    /\ UNCHANGED <<marketVars, shellVars, admins, adminsLocal, isMasterAdmin, view, listVars>>

\* the Demote control is rendered for isMasterAdmin on is_master rows of others
handleDemoteAdmin(u, adminId) ==
    /\ isMasterAdmin[u]
    /\ statements[u].op = "none"
    /\ adminId \in DOMAIN adminsLocal[u]
    /\ adminsLocal[u][adminId]
    /\ adminId # u
    /\ IF masterAdmins(adminsLocal[u]) = {adminId}
       THEN /\ error' = "Cannot demote the last master admin"
            /\ UNCHANGED statements
       ELSE /\ error' = ""
            /\ statements' = [statements EXCEPT ![u] =
                   BeginStatement(u, "update", adminId, FALSE)]
    /\ UNCHANGED <<marketVars, shellVars, admins, adminsLocal, isMasterAdmin, view, listVars>>

\* the Remove control rendered on every row
handleRemoveAnyAdmin(u, adminId) ==
    /\ isMasterAdmin[u]
    /\ statements[u].op = "none"
    /\ adminId \in DOMAIN adminsLocal[u]
    /\ error' = ""
    /\ statements' = [statements EXCEPT ![u] = BeginStatement(u, "delete", adminId, FALSE)]
    /\ UNCHANGED <<marketVars, shellVars, admins, adminsLocal, isMasterAdmin, view, listVars>>

\* the Remove control is rendered for isMasterAdmin on the rows of others
handleRemoveAdmin(u, adminId) ==
    /\ isMasterAdmin[u]
    /\ statements[u].op = "none"
    /\ adminId \in DOMAIN adminsLocal[u]
    /\ adminId # u
    /\ IF adminsLocal[u][adminId] /\ Cardinality(masterAdmins(adminsLocal[u])) = 1
       THEN /\ error' = "Cannot remove the last master admin"
            /\ UNCHANGED statements
       ELSE /\ error' = ""
            /\ statements' = [statements EXCEPT ![u] =
                   BeginStatement(u, "delete", adminId, FALSE)]
    /\ UNCHANGED <<marketVars, shellVars, admins, adminsLocal, isMasterAdmin, view, listVars>>

\* the awaited write of a handler returns: the statement commits, an error is
\* thrown to setError, otherwise the handler ends with fetchAdmins()
awaitAdminsWrite(u) ==
    LET r == ExecuteStatement(statements[u], admins)
    IN  /\ statements[u].op # "none"
        /\ admins' = r.table
        /\ error' = r.error
        /\ statements' = [statements EXCEPT ![u] = NoStatement]
        /\ adminsLocal' = IF r.error = ""
                          THEN [adminsLocal EXCEPT ![u] = selectAdmins(u, r.table)]
                          ELSE adminsLocal
        /\ UNCHANGED <<marketVars, shellVars, isMasterAdmin, view, listVars>>

NextAdmin ==
    \/ \E u \in AdminSessions : checkMasterAdmin(u)
    \/ \E u \in AdminSessions : fetchAdmins(u)
    \/ \E u \in AdminSessions, e \in NewAdminEmails : handleAddAdmin(u, e)
    \/ \E u \in AdminSessions, a \in Users : handlePromoteAdmin(u, a)
    \/ \E u \in AdminSessions, a \in Users : handleDemoteAdmin(u, a)
    \/ \E u \in AdminSessions, a \in Users : handleRemoveAdmin(u, a)
    \/ \E u \in AdminSessions : awaitAdminsWrite(u)
    \/ ensureMasterAdmin

SpecAdmin == Init /\ [][NextAdmin]_vars

\* =============================================================== SpecView
\* One Messages view of member u1, who has accepted the requests of u2 and u3
\* for a product; the participants send messages while the view is used.

InitView ==
    /\ products = (1 :> Listing("t", "d", 5, "c", "new", "i", "u1"))
    /\ chats = (1 :> [product_id |-> 1, buyer_id |-> "u2", seller_id |-> "u1",
                      status |-> "accepted"])
            @@ (2 :> [product_id |-> 1, buyer_id |-> "u3", seller_id |-> "u1",
                      status |-> "accepted"])
    /\ messages = <<>>
    /\ admins = (MasterAdminUser :> TRUE)
    /\ session = "u1"
    /\ selectedChat = NoChat
    /\ requestSent = {}
    /\ error = ""
    /\ adminsLocal = [u \in Users |-> <<>>]
    /\ isMasterAdmin = [u \in Users |-> FALSE]
    /\ statements = [u \in Users |-> NoStatement]
    /\ profiles = [u \in Users |-> [username |-> username[u], full_name |-> username[u]]]
    /\ login = NoLogin
    /\ profileUpdate = NoProfileUpdate
    /\ view = NoView
    /\ chatsLocal = <<>>
    /\ statusRequest = NoStatusRequest
    /\ isAdmin = FALSE
    /\ adminChecks = {}

viewFixed == <<products, chats, session, requestSent, error, adminVars, shellVars>>

\* the channels after messageSubscription is set up and never removed
subscribeWithoutCleanup(channels, id) == Append(channels, id)

\* the [selectedChat] effect re-runs: the cleanup of the last run removes its
\* channel, then messageSubscription is set up with filter chat_id=eq.id
messageSubscription(channels, id) == <<id>>

\* the [selectedChat] effect for the selection of chat id: fetchMessages is
\* called and the subscription is replaced
selectedChatEffect(v, id) ==
    [v EXCEPT !.loading = TRUE,
              !.fetches = @ \cup {[chat_id |-> id, read |-> FALSE, data |-> <<>>]},
              !.channels = messageSubscription(@, id),
              !.events = <<>>]

\* the page is opened: both effects run, with selectedChat null fetchMessages
\* returns at once and the filter is chat_id=eq.undefined
mountMessages ==
    /\ ~view.mounted
    /\ session # NoSession
    /\ selectedChat' = NoChat
    /\ view' = [NoView EXCEPT !.mounted = TRUE, !.loading = TRUE,
                              !.fetchingChats = TRUE,
                              !.channels = messageSubscription(<<>>, NoChat.id)]
    /\ chatsLocal' = <<>>
    /\ statusRequest' = NoStatusRequest
    /\ UNCHANGED <<viewFixed, messages>>

\* the page is closed: the cleanups run
unmountMessages ==
    /\ view.mounted
    /\ selectedChat' = NoChat
    /\ view' = NoView
    /\ chatsLocal' = <<>>
    /\ statusRequest' = NoStatusRequest
    /\ UNCHANGED <<viewFixed, messages>>

\* the chats of the session's member, created_at descending
chatsWithDetails ==
    {c \in DOMAIN chats : UsersCanViewTheirOwnChats(session, chats[c])}

\* fetchChats returns: in its closure selectedChat is null
fetchChats ==
    /\ view.mounted
    /\ view.fetchingChats
    /\ IF chatsWithDetails # {}
       THEN LET first == Max(chatsWithDetails)
            IN  /\ selectedChat' = [id |-> first, status |-> chats[first].status]
                /\ view' = selectedChatEffect([view EXCEPT !.fetchingChats = FALSE],
                                               first)
                /\ chatsLocal' = [c \in chatsWithDetails |-> chats[c].status]
       ELSE /\ view' = [view EXCEPT !.loading = FALSE, !.fetchingChats = FALSE]
            /\ UNCHANGED <<selectedChat, chatsLocal>>
    /\ UNCHANGED <<viewFixed, statusRequest, messages>>

\* handleChatSelect on another chat of the list, and the effect it triggers
selectChat(c) ==
    /\ view.mounted
    /\ c \in DOMAIN chatsLocal
    /\ c # selectedChat.id
    /\ selectedChat' = [id |-> c, status |-> chatsLocal[c]]
    /\ view' = selectedChatEffect(view, c)
    /\ UNCHANGED <<viewFixed, listVars, messages>>

\* the ids of the messages of chat c that uid may view, created_at ascending
RECURSIVE selectMessagesUpTo(_, _, _)
selectMessagesUpTo(uid, c, n) ==
    IF n = 0 THEN <<>>
    ELSE IF messages[n].chat_id = c /\ ChatParticipantsCanViewMessages(uid, messages[n])
    THEN Append(selectMessagesUpTo(uid, c, n - 1), n)
    ELSE selectMessagesUpTo(uid, c, n - 1)

selectMessages(uid, c) == selectMessagesUpTo(uid, c, Len(messages))

\* the data service runs the select of a fetchMessages call
fetchMessagesQuery(f) ==
    /\ f \in view.fetches
    /\ ~f.read
    /\ view' = [view EXCEPT !.fetches = (@ \ {f}) \cup
                    {[f EXCEPT !.read = TRUE, !.data = selectMessages(session, f.chat_id)]}]
    /\ UNCHANGED <<viewFixed, listVars, messages, selectedChat>>

\* the await of fetchMessages returns: setMessages(data || [])
fetchMessagesReply(f) ==
    /\ f \in view.fetches
    /\ f.read
    /\ view' = [view EXCEPT !.fetches = @ \ {f}, !.messages = f.data,
                            !.loading = FALSE]
    /\ UNCHANGED <<viewFixed, listVars, messages, selectedChat>>

\* member u sends a message on chat c; the change feed queues the INSERT for
\* the channels whose filter matches
messagesInsert(u, c) ==
    LET row == [chat_id |-> c, sender_id |-> u, content |-> <<"h">>]
        r == InsertMessage(u, row)
        hears == /\ r.error = ""
                 /\ \E i \in 1..Len(view.channels) : view.channels[i] = c
                 /\ ChatParticipantsCanViewMessages(session, row)
    IN  /\ Len(messages) < MaxViewMessages
        /\ messages' = r.table
        /\ view' = IF hears
                   THEN [view EXCEPT !.events = Append(@, Len(r.table))]
                   ELSE view
        /\ UNCHANGED <<viewFixed, listVars, selectedChat>>

\* the channel's callback runs: setMessages(prev => [...prev, payload.new])
postgres_changes ==
    /\ view.events # <<>>
    /\ view' = [view EXCEPT !.events = Tail(@),
                            !.messages = Append(@, Head(view.events))]
    /\ UNCHANGED <<viewFixed, listVars, messages, selectedChat>>

NextView ==
    \/ mountMessages
    \/ unmountMessages
    \/ fetchChats
    \/ \E c \in DOMAIN chats : selectChat(c)
    \/ \E f \in view.fetches : fetchMessagesQuery(f)
    \/ \E f \in view.fetches : fetchMessagesReply(f)
    \/ \E u \in Users, c \in DOMAIN chats : messagesInsert(u, c)
    \/ postgres_changes

SpecView == InitView /\ [][NextView]_vars

\* the Messages view while another session of the seller answers the requests
\* again
NextViewStatus ==
    \/ NextView
    \/ \E c \in DOMAIN chats, st \in {"accepted", "rejected"} :
          DirectUpdateChat(chats[c].seller_id, c, st)

SpecViewStatus == InitView /\ [][NextViewStatus]_vars

\* the messages the view renders: the list, when the status of the selected
\* chat in the state of the component is accepted
renderedMessages ==
    IF view.mounted /\ selectedChat # NoChat /\ selectedChat.status = "accepted"
    THEN view.messages
    ELSE <<>>

\* ============================================================== SpecChats
\* The Messages view of the seller u1 with the request of u2 accepted and the
\* request of u3 pending: the view answers requests, and the update of
\* handleStatusChange is in flight between its call and its return.
InitChats ==
    /\ products = (1 :> Listing("t", "d", 5, "c", "new", "i", "u1"))
    /\ chats = (1 :> [product_id |-> 1, buyer_id |-> "u2", seller_id |-> "u1",
                      status |-> "accepted"])
            @@ (2 :> [product_id |-> 1, buyer_id |-> "u3", seller_id |-> "u1",
                      status |-> "pending"])
    /\ messages = <<>>
    /\ admins = (MasterAdminUser :> TRUE)
    /\ session = "u1"
    /\ selectedChat = NoChat
    /\ requestSent = {}
    /\ error = ""
    /\ adminsLocal = [u \in Users |-> <<>>]
    /\ isMasterAdmin = [u \in Users |-> FALSE]
    /\ statements = [u \in Users |-> NoStatement]
    /\ profiles = [u \in Users |-> [username |-> username[u], full_name |-> username[u]]]
    /\ login = NoLogin
    /\ profileUpdate = NoProfileUpdate
    /\ view = NoView
    /\ chatsLocal = <<>>
    /\ statusRequest = NoStatusRequest
    /\ isAdmin = FALSE
    /\ adminChecks = {}

\* Accept or Decline is pressed: setLoading(true), setError(''), and the
\* update is sent; the closure holds selectedChat and chats of this render
handleStatusChangeCall(status) ==
    /\ view.mounted
    /\ selectedChat # NoChat
    /\ chats[selectedChat.id].seller_id = session
    /\ selectedChat.status = "pending"
    /\ statusRequest = NoStatusRequest
    /\ statusRequest' = [chat_id |-> selectedChat.id, status |-> status,
                         selectedChat |-> selectedChat, chats |-> chatsLocal]
    /\ view' = [view EXCEPT !.loading = TRUE]
    /\ error' = ""
    /\ UNCHANGED <<products, chats, messages, session, selectedChat, requestSent,
                   adminVars, shellVars, chatsLocal>>

\* the handler that sets the local state before it looks at the error
handleStatusChangeOptimistic(ok) ==
    LET q == statusRequest
    IN  /\ q # NoStatusRequest
        /\ statusRequest' = NoStatusRequest
        /\ selectedChat' = [q.selectedChat EXCEPT !.status = q.status]
        /\ chatsLocal' = [c \in DOMAIN q.chats |->
                              IF c = q.chat_id THEN q.status ELSE q.chats[c]]
        /\ view' = [selectedChatEffect(view, q.chat_id) EXCEPT !.chatsEvent = ok]
        /\ IF ok
           THEN /\ chats' = UpdateChatStatus(session, q.chat_id, q.status).table
                /\ error' = error
           ELSE /\ error' = "Failed to fetch"
                /\ chats' = chats
        /\ UNCHANGED <<products, messages, session, requestSent, adminVars, shellVars>>

\* the await of the update returns; ok is false when the data service or the
\* network answers with an error.  After a success the state is set from
\* the closure, and the new selectedChat object re-runs its effect.
handleStatusChangeReturn(ok) ==
    LET q == statusRequest
        r == UpdateChatStatus(session, q.chat_id, q.status)
    IN  /\ q # NoStatusRequest
        /\ statusRequest' = NoStatusRequest
        /\ IF ok /\ r.error = ""
           THEN /\ chats' = r.table
                /\ selectedChat' = [q.selectedChat EXCEPT !.status = q.status]
                /\ chatsLocal' = [c \in DOMAIN q.chats |->
                                      IF c = q.chat_id THEN q.status ELSE q.chats[c]]
                /\ view' = [selectedChatEffect(view, q.chat_id)
                              EXCEPT !.chatsEvent = TRUE]
                /\ error' = error
           ELSE /\ error' = "Failed to fetch"
                /\ view' = [view EXCEPT !.loading = FALSE]
                /\ UNCHANGED <<chats, selectedChat, chatsLocal>>
        /\ UNCHANGED <<products, messages, session, requestSent, adminVars, shellVars>>

\* the callback of the chat subscription runs for a change of chats:
\* fetchChats() is called in the closure of the mount, setLoading(true) and
\* setError('')
chatSubscription ==
    /\ view.mounted
    /\ view.chatsEvent
    /\ view' = [view EXCEPT !.chatsEvent = FALSE, !.fetchingChats = TRUE,
                            !.loading = TRUE]
    /\ error' = ""
    /\ UNCHANGED <<products, chats, messages, session, selectedChat, requestSent,
                   adminVars, shellVars, listVars>>

NextChats ==
    \/ mountMessages
    \/ unmountMessages
    \/ fetchChats
    \/ \E c \in DOMAIN chats : selectChat(c)
    \/ \E f \in view.fetches : fetchMessagesQuery(f)
    \/ \E f \in view.fetches : fetchMessagesReply(f)
    \/ \E u \in Users, c \in DOMAIN chats : messagesInsert(u, c)
    \/ postgres_changes
    \/ \E st \in {"accepted", "rejected"} : handleStatusChangeCall(st)
    \/ \E ok \in BOOLEAN : handleStatusChangeReturn(ok)
    \/ chatSubscription

SpecChats == InitChats /\ [][NextChats]_vars

\* ============================================================== SpecShell
\* The application shell and the profiles table: u3 has an account but has
\* not had a session yet, the members change their handles.

Handles == {"21bcs6987", "u2", "u3", "zed"}

InitShell ==
    /\ products = <<>>
    /\ chats = <<>>
    /\ messages = <<>>
    /\ admins = (MasterAdminUser :> TRUE)
    /\ session = NoSession
    /\ selectedChat = NoChat
    /\ requestSent = {}
    /\ error = ""
    /\ adminsLocal = [u \in Users |-> <<>>]
    /\ isMasterAdmin = [u \in Users |-> FALSE]
    /\ statements = [u \in Users |-> NoStatement]
    /\ profiles = [u \in Users \ {"u3"} |->
                      [username |-> username[u], full_name |-> username[u]]]
    /\ login = NoLogin
    /\ profileUpdate = NoProfileUpdate
    /\ view = NoView
    /\ chatsLocal = <<>>
    /\ statusRequest = NoStatusRequest
    /\ isAdmin = FALSE
    /\ adminChecks = {}

\* supabase.auth.signOut
signOut ==
    /\ session # NoSession
    /\ session' = NoSession
    /\ selectedChat' = NoChat
    /\ requestSent' = {}
    /\ error' = ""
    /\ UNCHANGED <<products, chats, messages, adminVars, shellVars, view, listVars>>

\* a member's client updates the username of a profile
DirectUpdateProfile(u, id, name) ==
    /\ profiles' = UpdateProfile(u, id, name).table
    /\ UNCHANGED <<marketVars, error, adminVars, login, profileUpdate, appVars, view, listVars>>

\* Profile.updateProfile until its update is sent: the required fields, then
\* the select of another profile with the username when it differs from the
\* one loaded
updateProfile(u, name) ==
    /\ session = u
    /\ u \in DOMAIN profiles
    /\ profileUpdate = NoProfileUpdate
    /\ IF name = ""
       THEN error' = "Username is required" /\ UNCHANGED profileUpdate
       ELSE IF /\ name # profiles[u].username
               /\ \E p \in DOMAIN profiles \ {u} : profiles[p].username = name
       THEN error' = "Username is already taken" /\ UNCHANGED profileUpdate
       ELSE error' = "" /\ profileUpdate' = [id |-> u, username |-> name]
    /\ UNCHANGED <<marketVars, adminVars, profiles, login, appVars, view, listVars>>

\* the await of the update returns: the request carries id, full_name,
\* username, course and updated_at
updateProfileReturn ==
    LET q == profileUpdate
        r == IF UnknownColumns({"id", "full_name", "username", "course",
                                "updated_at"}) # {}
             THEN [table |-> profiles, error |-> "could not find the column"]
             ELSE UpdateProfile(q.id, q.id, q.username)
    IN  /\ q # NoProfileUpdate
        /\ profiles' = r.table
        /\ error' = r.error
        /\ profileUpdate' = NoProfileUpdate
        /\ UNCHANGED <<marketVars, adminVars, login, appVars, view, listVars>>

NextShell ==
    \/ \E u \in Users : signIn(u)
    \/ signOut
    \/ \E u \in Users, n \in Handles \cup {""} : updateProfile(u, n)
    \/ updateProfileReturn
    \/ \E u \in Users, id \in Users, n \in Handles : DirectUpdateProfile(u, id, n)

SpecShell == InitShell /\ [][NextShell]_vars

\* ============================================================ SpecSession
\* App: the isAdmin state and the calls of checkIfAdmin, which run across
\* changes of the session.  u2 has been made an admin by the master admin, u3
\* has an account but has not had a session yet.

InitSession ==
    /\ products = <<>>
    /\ chats = <<>>
    /\ messages = <<>>
    /\ admins = (MasterAdminUser :> TRUE) @@ ("u2" :> FALSE)
    /\ session = NoSession
    /\ selectedChat = NoChat
    /\ requestSent = {}
    /\ error = ""
    /\ adminsLocal = [u \in Users |-> <<>>]
    /\ isMasterAdmin = [u \in Users |-> FALSE]
    /\ statements = [u \in Users |-> NoStatement]
    /\ profiles = [u \in Users \ {"u3"} |->
                      [username |-> username[u], full_name |-> username[u]]]
    /\ login = NoLogin
    /\ profileUpdate = NoProfileUpdate
    /\ view = NoView
    /\ chatsLocal = <<>>
    /\ statusRequest = NoStatusRequest
    /\ isAdmin = FALSE
    /\ adminChecks = {}

\* the callback of supabase.auth.onAuthStateChange: setSession, then
\* checkIfAdmin(session.user.id) is called for a session and setIsAdmin(false)
\* for none
onAuthStateChange(s) ==
    /\ session # s
    /\ session' = s
    /\ selectedChat' = NoChat
    /\ requestSent' = {}
    /\ error' = ""
    /\ IF s # NoSession
       THEN /\ adminChecks' = adminChecks \cup
                   {[userId |-> s, answered |-> FALSE, data |-> FALSE]}
            /\ UNCHANGED isAdmin
       ELSE /\ isAdmin' = FALSE
            /\ UNCHANGED adminChecks
    /\ UNCHANGED <<products, chats, messages, adminVars, profiles, login,
                   profileUpdate, view, listVars>>

\* what a call checkIfAdmin(userId) passes to setIsAdmin when its requests are
\* answered for the session of auth: true when getUser gives the hardcoded
\* email, else whether the select of the admins row of userId gave one
checkIfAdminData(auth, userId) ==
    auth = MasterAdminUser \/ userId \in DOMAIN selectAdmins(auth, admins)

\* the requests of a call of checkIfAdmin are answered for the session of
\* this moment: the profile of userId is inserted when there is none, and for
\* the hardcoded email the master row of userId is upserted
checkIfAdminQuery(c) ==
    /\ c \in adminChecks
    /\ ~c.answered
    /\ profiles' = IF c.userId \in DOMAIN profiles
                   THEN profiles
                   ELSE InsertProfile(session, c.userId,
                                      [username |-> username[c.userId],
                                       full_name |-> username[c.userId]]).table
    /\ admins' = IF session = MasterAdminUser
                 THEN UpsertAdmin(session, c.userId, TRUE).table
                 ELSE admins
    /\ adminChecks' = (adminChecks \ {c}) \cup
           {[c EXCEPT !.answered = TRUE,
                      !.data = checkIfAdminData(session, c.userId)]}
    /\ UNCHANGED <<marketVars, error, adminsLocal, isMasterAdmin, statements,
                   login, profileUpdate, isAdmin, view, listVars>>

\* the call goes on after its last await: setIsAdmin of what it was answered
checkIfAdminReturn(c) ==
    /\ c \in adminChecks
    /\ c.answered
    /\ isAdmin' = c.data
    /\ adminChecks' = adminChecks \ {c}
    /\ UNCHANGED <<marketVars, error, adminVars, profiles, login, profileUpdate,
                   view, listVars>>

NextSession ==
    \/ \E s \in Users \cup {NoSession} : onAuthStateChange(s)
    \/ \E c \in adminChecks : checkIfAdminQuery(c)
    \/ \E c \in adminChecks : checkIfAdminReturn(c)

SpecSession == InitSession /\ [][NextSession]_vars

\* ============================================================ SpecListing
\* The New Listing form with any content of its fields, the form of the
\* earlier NewListing component, and other clients inserting rows.
PriceInputs == {<<>>, <<"5">>, <<"1", "2">>, <<"0">>, <<"-", "5">>, <<"a">>,
                <<"5", "a">>}

Forms == [title : {"", "t"}, description : {"", "d"}, price : PriceInputs,
          category : {"", "c"}, condition : {"new"}, imageUrl : {"", "i"}]

DirectPrices == {0 - 5, 0, 5}

\* handleSubmit of the NewListing component inside the application file: NaN
\* is sent as null
handleSubmitInline(u, form) ==
    LET priceValue == parseFloat(form.price)
        row == Listing(form.title, form.description, priceValue.value,
                       form.category, form.condition, form.imageUrl, u)
        r == InsertProduct(u, IF priceValue.nan
                              THEN [c \in ProductColumns \ {"price"} |-> row[c]]
                              ELSE row)
    IN  /\ session = u
        /\ NewId(products) <= MaxProducts
        /\ IF \/ form.title = "" \/ form.description = "" \/ form.price = <<>>
              \/ form.category = "" \/ form.imageUrl = ""
           THEN error' = "Please fill all required fields" /\ products' = products
           ELSE products' = r.table /\ error' = r.error
        /\ UNCHANGED <<chats, messages, session, selectedChat, requestSent,
                       adminVars, shellVars, view, listVars>>

NextListing ==
    \/ \E u \in Users : signIn(u)
    \/ signOut
    \/ \E u \in Users, form \in Forms : handleSubmit(u, form)
    \/ \E u \in Users, form \in Forms : handleSubmitInline(u, form)
    \/ \E u \in Users, s \in Users, price \in DirectPrices :
          DirectInsertProduct(u, s, price)
    \/ \E u \in Users, p \in 1..MaxProducts : DirectDeleteProduct(u, p)

SpecListing == Init /\ [][NextListing]_vars

\* ============================================================ SpecRequests
\* The requests to buy one product of member u1: the ProductDetail page of the
\* session, other sessions of the members, and the seller's answers.
InitRequests ==
    /\ products = (1 :> Listing("t", "d", 5, "c", "new", "i", "u1"))
    /\ chats = <<>>
    /\ messages = <<>>
    /\ admins = (MasterAdminUser :> TRUE)
    /\ session = NoSession
    /\ selectedChat = NoChat
    /\ requestSent = {}
    /\ error = ""
    /\ adminsLocal = [u \in Users |-> <<>>]
    /\ isMasterAdmin = [u \in Users |-> FALSE]
    /\ statements = [u \in Users |-> NoStatement]
    /\ profiles = [u \in Users |-> [username |-> username[u], full_name |-> username[u]]]
    /\ login = NoLogin
    /\ profileUpdate = NoProfileUpdate
    /\ view = NoView
    /\ chatsLocal = <<>>
    /\ statusRequest = NoStatusRequest
    /\ isAdmin = FALSE
    /\ adminChecks = {}

NextRequests ==
    \/ \E u \in Users : signIn(u)
    \/ signOut
    \/ \E u \in Users, p \in 1..MaxProducts : fetchProductDetails(u, p)
    \/ \E u \in Users, p \in 1..MaxProducts :
          NewId(chats) <= MaxRequests /\ handleBuyRequest(u, p)
    \/ \E u \in Users, p \in 1..MaxProducts, b \in Users, s \in Users,
          st \in DirectStatuses :
             NewId(chats) <= MaxRequests /\ DirectInsertChat(u, p, b, s, st)
    \/ \E u \in Users, c \in 1..MaxRequests, st \in Statuses : DirectUpdateChat(u, c, st)

SpecRequests == InitRequests /\ [][NextRequests]_vars

\* ============================================================== SpecLogin
\* The Login page.  An email is a sequence of pieces of text, "@" one of them.

LoginEmails ==
    { <<"a", "@", "cuchd.in">>, <<"a", "@", "gmail.com">>,
      <<"a", "@", "x", "cuchd.in">>, <<"a", "@", "cuchd.in", "x">>,
      <<"a", "@", "CUCHD.IN">>, <<"a">>, <<"@", "cuchd.in">> }

\* String.prototype.endsWith
endsWith(s, suffix) ==
    /\ Len(s) >= Len(suffix)
    /\ SubSeq(s, Len(s) - Len(suffix) + 1, Len(s)) = suffix

\* a check for the domain text without the "@" before it
endsWithDomainText(email) == endsWith(email, <<"cuchd.in">>)

isValidCUEmail(email) == endsWith(email, <<"@", "cuchd.in">>)

\* a mode tab is clicked
setMode(mode) ==
    /\ login' = [login EXCEPT !.mode = mode, !.error = "", !.successMessage = ""]
    /\ UNCHANGED <<marketVars, error, adminVars, profiles, profileUpdate, appVars, view, listVars>>

toggleAdminLogin ==
    /\ login' = [login EXCEPT !.isAdminLogin = ~@, !.error = "",
                              !.successMessage = ""]
    /\ UNCHANGED <<marketVars, error, adminVars, profiles, profileUpdate, appVars, view, listVars>>

\* Login.handleSubmit; authOk is the answer of the auth service
loginHandleSubmit(email, authOk) ==
    /\ IF ~login.isAdminLogin /\ ~isValidCUEmail(email)
       THEN login' = [login EXCEPT
                !.error = "Please use your @cuchd.in email address",
                !.successMessage = "",
                !.request = NoRequest]
       ELSE IF login.mode = "signup" /\ ~login.isAdminLogin
       THEN login' = [login EXCEPT
                !.request = [kind |-> "signUp", email |-> email],
                !.error = IF authOk THEN "" ELSE "auth error",
                !.successMessage = IF authOk
                                   THEN "Signup successful! You can now sign in."
                                   ELSE "",
                !.mode = IF authOk THEN "signin" ELSE @]
       ELSE IF login.mode = "forgot"
       THEN login' = [login EXCEPT
                !.request = [kind |-> "resetPasswordForEmail", email |-> email],
                !.error = IF authOk THEN "" ELSE "auth error",
                !.successMessage = IF authOk
                                   THEN "Password reset instructions have been sent to your email."
                                   ELSE ""]
       ELSE login' = [login EXCEPT
                !.request = [kind |-> "signInWithPassword", email |-> email],
                !.error = IF authOk THEN "" ELSE "auth error",
                !.successMessage = ""]
    /\ UNCHANGED <<marketVars, error, adminVars, profiles, profileUpdate, appVars, view, listVars>>

NextLogin ==
    \/ \E m \in {"signin", "signup", "forgot"} : setMode(m)
    \/ toggleAdminLogin
    \/ \E e \in LoginEmails, ok \in BOOLEAN : loginHandleSubmit(e, ok)

SpecLogin == Init /\ [][NextLogin]_vars

\* ======================================================== negotiation claims

C2_OnlyPendingTransitions ==
    [][\A c \in DOMAIN chats :
          /\ c \in DOMAIN chats'
          /\ chats'[c].status # chats[c].status
               => /\ chats[c].status = "pending"
                  /\ chats'[c].status \in {"accepted", "rejected"}]_vars

\* the member may send on the negotiation: it exists, is accepted, and the
\* member is its buyer or its seller
CanSend(u, c) ==
    /\ c \in DOMAIN chats
    /\ chats[c].status = "accepted"
    /\ u \in {chats[c].buyer_id, chats[c].seller_id}

\* C3: in every state, a send by member u on negotiation c stores the message
\* (and reports no error) exactly when c exists, is accepted and u is its buyer
\* or seller; otherwise it reports an error and stores nothing.
C3_SendIffAcceptedParticipant ==
    \A u \in Users, c \in 1..(MaxChats + 1), s \in Users, t \in Texts :
        LET row == [chat_id |-> c, sender_id |-> s, content |-> t]
            r == InsertMessage(u, row)
        IN  IF CanSend(u, c)
            THEN r.error = "" /\ r.table = Append(messages, row)
            ELSE r.error # "" /\ r.table = messages

\* the session has sent a message from the Messages page on an accepted
\* negotiation, while the third member is no participant of it
C3_Witness ==
    /\ selectedChat # NoChat
    /\ chats[selectedChat.id].status = "accepted"
    /\ \E i \in 1..Len(messages) :
          /\ messages[i].chat_id = selectedChat.id
          /\ messages[i].sender_id = session
    /\ \E u \in Users : ~CanSend(u, selectedChat.id)

\* C6: in every state the buyer of a stored negotiation is not its seller.
C6_NoSelfTrade ==
    \A c \in DOMAIN chats : chats[c].buyer_id # chats[c].seller_id

\* C7: a delete request removes the listing exactly when the requester is its
\* owner or holds an admin grant.
C7_DeleteIffOwnerOrAdmin ==
    \A u \in Users, p \in DOMAIN products :
        (p \notin DOMAIN DeleteProduct(u, p).table)
            <=> (u = products[p].seller_id \/ u \in DOMAIN admins)

\* ============================================================ admin claims

\* member t holds the only grant with is_master
SoleMaster(t) == masterAdmins(admins) = {t}

\* C4: whenever the target of a demote or remove is the only master admin of
\* the store, the handler ends with its validation error, issues no statement
\* and leaves the admins table as it was, whoever the caller is.
C4_LastMasterValidation ==
    [][\A u \in Users, t \in Users :
          (SoleMaster(t) /\ (handleDemoteAdmin(u, t) \/ handleRemoveAdmin(u, t)))
          => /\ error' \in {"Cannot demote the last master admin",
                            "Cannot remove the last master admin"}
             /\ statements' = statements
             /\ admins' = admins]_vars

\* C5: in every reachable state some admin grant has is_master.
C5_MasterFloor == masterAdmins(admins) # {}

C9_NoStaleReply ==
    [][/\ \A f \in view.fetches :
             fetchMessagesReply(f)
                 => \A i \in 1..Len(view'.messages) :
                        messages[view'.messages[i]].chat_id = selectedChat.id
       /\ postgres_changes
             => messages[Head(view.events)].chat_id = selectedChat.id]_vars

\* C10: in every state the open view has exactly one message subscription,
\* filtered on the id of the selected chat (NoChat.id while none is selected),
\* and the closed view has none.
C10_OneSubscription ==
    IF view.mounted
    THEN view.channels = <<selectedChat.id>>
    ELSE view.channels = <<>>

\* the selection has changed from chat 2 to chat 1: the history fetch of chat 2
\* is still in flight and the subscription is the one of chat 1
C10_Witness ==
    /\ view.mounted
    /\ selectedChat.id = 1
    /\ view.channels = <<1>>
    /\ \E f \in view.fetches : f.chat_id = 2

\* C11: in every state the displayed message list is in non-decreasing
\* creation order (message ids are assigned in creation order), so that each
\* sender's messages appear in the order they were sent.
C11_ListInCreationOrder ==
    \A i \in 1..Len(view.messages), j \in 1..Len(view.messages) :
        i < j => view.messages[i] <= view.messages[j]

\* C12: once a negotiation is rejected, a send on it by its buyer or its
\* seller fails and stores nothing, in that state and after every further step.
C12_NoSendAfterReject ==
    [][\A c \in DOMAIN chats, u \in Users, t \in Texts :
          ( /\ chats[c].status = "rejected"
            /\ u \in {chats[c].buyer_id, chats[c].seller_id} )
          => LET row == [chat_id |-> c, sender_id |-> u, content |-> t]
             IN  /\ InsertMessage(u, row).error # ""
                 /\ (InsertMessage(u, row).error # "")'
                 /\ (InsertMessage(u, row).table = messages)']_vars

\* C13: when nothing more is on its way to the open view (no history fetch in
\* flight, no change feed event queued), the displayed list holds every stored
\* message of the selected chat exactly once, in creation order.
C13_DeliveredExactlyOnce ==
    ( /\ view.mounted
      /\ selectedChat # NoChat
      /\ view.fetches = {}
      /\ view.events = <<>> )
    => view.messages = selectMessages(session, selectedChat.id)

\* ============================================================ login claims

\* the text of an email after its last "@" (the whole email when it has none)
RECURSIVE emailDomain(_)
emailDomain(email) ==
    IF email = <<>> \/ email[Len(email)] = "@" THEN <<>>
    ELSE IF \A i \in 1..Len(email) : email[i] # "@" THEN email
    ELSE Append(emailDomain(SubSeq(email, 1, Len(email) - 1)), email[Len(email)])

\* C14: a submission on the member path with an email outside the domain
\* cuchd.in ends, in every mode, with the validation error and sends nothing to
\* the auth service; a submission on the admin path sends a request with the
\* email typed, whatever the email.
C14_DomainCheck ==
    [][\A e \in LoginEmails, ok \in BOOLEAN :
          loginHandleSubmit(e, ok) =>
              IF ~login.isAdminLogin
              THEN emailDomain(e) # <<"cuchd.in">> =>
                       /\ login'.error = "Please use your @cuchd.in email address"
                       /\ login'.request = NoRequest
              ELSE /\ login'.request.kind # "none"
                   /\ login'.request.email = e]_vars

\* a reset submission with a foreign email was refused on the member path
C14_Witness ==
    /\ ~login.isAdminLogin
    /\ login.mode = "forgot"
    /\ login.error = "Please use your @cuchd.in email address"
    /\ login.request = NoRequest

\* ============================================================ shell claims

\* C15: when the session handler has run for a member who had no profile, the
\* member has a profile whose username and full_name are the local part of the
\* member's email.
C15_ProfileSynthesized ==
    [][\A u \in Users :
          (signIn(u) /\ u \notin DOMAIN profiles)
          => /\ u \in DOMAIN profiles'
             /\ profiles'[u] = [username |-> username[u],
                                full_name |-> username[u]]]_vars

\* C16: the member of the hardcoded email is an admin for the application
\* shell in every state, and every master check of the admin view in that
\* member's session ends with isMasterAdmin set.
C16_PermanentMaster ==
    [][/\ checkIfAdmin(MasterAdminUser)
       /\ checkMasterAdmin(MasterAdminUser) => isMasterAdmin'[MasterAdminUser]]_vars

\* C17: every stored Listing has a price greater than 0.
C17_StoredPricePositive ==
    \A p \in DOMAIN products : products[p].price > 0

\* C18: two Negotiations of the same buyer with the seller of the same Listing
\* are never both non-rejected.
C18_OneActiveRequest ==
    \A c, d \in DOMAIN chats :
        (/\ c # d
         /\ chats[c].product_id = chats[d].product_id
         /\ chats[c].buyer_id = chats[d].buyer_id
         /\ chats[c].buyer_id # products[chats[c].product_id].seller_id
         /\ chats[c].seller_id = products[chats[c].product_id].seller_id
         /\ chats[d].seller_id = products[chats[d].product_id].seller_id)
            => (chats[c].status = "rejected" \/ chats[d].status = "rejected")

\* C19: every step keeps each stored Message, at its place in the creation
\* order, with the same negotiation, sender and content.
C19_MessagesImmutable ==
    [][/\ Len(messages') >= Len(messages)
       /\ \A i \in 1..Len(messages) : messages'[i] = messages[i]]_vars

\* a Message is stored and its Negotiation has been rejected since
C19_Witness ==
    \E i \in 1..Len(messages) : chats[messages[i].chat_id].status = "rejected"

\* C20: every message the Messages view renders belongs to a Negotiation whose
\* status is accepted.
C20_ShownOnlyWhileAccepted ==
    \A k \in 1..Len(renderedMessages) :
        chats[messages[renderedMessages[k]].chat_id].status = "accepted"

\* C21: when the update of handleStatusChange returns, no request stays in
\* flight; after an error the error is set, loading is false and the status of
\* the selected chat and of the chats list are as before; the local status
\* changes only in a step in which the stored status is set to the same value.
C21_StatusChangeError ==
    [][\A ok \in BOOLEAN :
          handleStatusChangeReturn(ok) =>
              /\ statusRequest' = NoStatusRequest
              /\ ~ok => /\ error' # ""
                        /\ ~view'.loading
                        /\ selectedChat' = selectedChat
                        /\ chatsLocal' = chatsLocal
                        /\ chats' = chats
              /\ (selectedChat' # selectedChat \/ chatsLocal' # chatsLocal) =>
                     /\ ok
                     /\ chats'[statusRequest.chat_id].status = statusRequest.status
                     /\ selectedChat'.status = statusRequest.status
                     /\ chatsLocal'[statusRequest.chat_id] = statusRequest.status]_vars

\* an accept or reject has failed: the error is shown and the chat is pending
C21_Witness ==
    /\ view.mounted
    /\ error = "Failed to fetch"
    /\ statusRequest = NoStatusRequest
    /\ selectedChat # NoChat
    /\ selectedChat.status = "pending"
    /\ ~view.loading

\* C22: the content of every stored Message is non-empty and has no
\* whitespace at its ends.
C22_StoredContentTrimmed ==
    \A i \in 1..Len(messages) :
        messages[i].content # <<>> /\ trim(messages[i].content) = messages[i].content

\* C23: handleAddAdmin of a master admin ends with an error and without a
\* statement when no profile has the local part as its username or when that
\* member is in admins, and otherwise sends one insert for that member with
\* is_master false in the name of the caller; the handler itself leaves admins
\* unchanged, and its insert either fails without a change or adds exactly
\* that row.
C23_AddAdmin ==
    [][\A u \in AdminSessions :
          /\ \A e \in NewAdminEmails :
                handleAddAdmin(u, e) =>
                    LET target == {p \in DOMAIN profiles : profiles[p].username = e}
                    IN  /\ admins' = admins
                        /\ MasterAdminsCanManageAdmins(u) =>
                              IF target = {} \/ target \cap DOMAIN admins # {}
                              THEN error' # "" /\ statements' = statements
                              ELSE /\ statements'[u].op = "insert"
                                   /\ statements'[u].id \in target
                                   /\ statements'[u].is_master = FALSE
                                   /\ statements'[u].uid = u
          /\ (awaitAdminsWrite(u) /\ statements[u].op = "insert") =>
                \/ admins' = admins /\ error' # ""
                \/ /\ statements[u].id \notin DOMAIN admins
                   /\ admins' = (statements[u].id :> FALSE) @@ admins
                   /\ error' = ""]_vars

\* member u3 has been added as an admin that is not a master
C23_Witness ==
    /\ "u3" \in DOMAIN admins
    /\ ~admins["u3"]
    /\ error = ""

\* C24: Demote and Remove are pressed only by a session whose isMasterAdmin is
\* set and on the row of another member, Promote only on a row that is not
\* is_master in the list; no demote or delete in flight targets its own
\* requester, and the commit of one leaves the requester's row as it is.
C24_NoSelfDemoteOrRemove ==
    [][\A u \in AdminSessions :
          /\ \A a \in Users :
                /\ (handleDemoteAdmin(u, a) \/ handleRemoveAdmin(u, a)) =>
                       isMasterAdmin[u] /\ a # u
                /\ handlePromoteAdmin(u, a) =>
                       isMasterAdmin[u] /\ ~adminsLocal[u][a]
          /\ (\/ statements'[u].op = "delete"
              \/ statements'[u].op = "update" /\ ~statements'[u].is_master) =>
                 statements'[u].id # u
          /\ (/\ awaitAdminsWrite(u)
              /\ \/ statements[u].op = "delete"
                 \/ statements[u].op = "update" /\ ~statements[u].is_master
              /\ u \in DOMAIN admins) =>
                 u \in DOMAIN admins' /\ admins'[u] = admins[u]]_vars

\* a master admin who sees the own row in the list has pressed Remove on the
\* row of another admin
C24_Witness ==
    \E u \in AdminSessions :
        /\ isMasterAdmin[u]
        /\ u \in DOMAIN adminsLocal[u]
        /\ adminsLocal[u][u]
        /\ statements[u].op = "delete"

\* C25: no two profiles have the same username, and an update that would give
\* a member the username of another member changes no profile: the request to
\* the data service fails with an error, and so does the update in flight of
\* the Profile page.
C25_UniqueHandles ==
    [][/\ \A p, q \in DOMAIN profiles' :
              p # q => profiles'[p].username # profiles'[q].username
       /\ \A u \in DOMAIN profiles, n \in Handles :
              (\E p \in DOMAIN profiles \ {u} : profiles[p].username = n) =>
                  /\ UpdateProfile(u, u, n).table = profiles
                  /\ UpdateProfile(u, u, n).error # ""
       /\ (/\ updateProfileReturn
           /\ \E p \in DOMAIN profiles \ {profileUpdate.id} :
                  profiles[p].username = profileUpdate.username) =>
              profiles' = profiles /\ error' # ""]_vars

\* the Profile page has passed its check for a username that another member
\* has taken since, and its update is in flight
C25_Witness ==
    /\ profileUpdate # NoProfileUpdate
    /\ \E p \in DOMAIN profiles \ {profileUpdate.id} :
           profiles[p].username = profileUpdate.username

\* C26: the seller of every stored Negotiation is the seller of its Listing.
C26_SellerOwnsListing ==
    \A c \in DOMAIN chats :
        chats[c].seller_id = products[chats[c].product_id].seller_id

\* C27: the sender of every stored Message is the buyer or the seller of its
\* Negotiation.
C27_SenderIsParticipant ==
    \A i \in 1..Len(messages) :
        messages[i].sender_id \in {chats[messages[i].chat_id].buyer_id,
                                   chats[messages[i].chat_id].seller_id}

\* C28: the isAdmin flag belongs to the current session: it is false when
\* there is no session, and false for a session whose member has no admins
\* row and not the hardcoded email once no check of that member is in flight,
\* whatever the order of sign-in, sign-out and the completions of checks
C28_FlagOfSession ==
    /\ session = NoSession => ~isAdmin
    /\ (/\ session # NoSession
        /\ ~checkIfAdmin(session)
        /\ \A c \in adminChecks : c.userId # session) => ~isAdmin

\* C29: a return of fetchChats that the chat subscription called while a chat
\* is selected leaves the selected chat the same, and the selected chat is
\* always one of the chats state that is displayed.
C29_RefreshKeepsSelection ==
    [][/\ (fetchChats /\ selectedChat # NoChat)
          => selectedChat'.id = selectedChat.id
       /\ selectedChat' # NoChat => selectedChat'.id \in DOMAIN chatsLocal']_vars

\* C30: in every state no message id occurs twice in the displayed message
\* list, whatever the order of the history fetch, the INSERT events of the
\* change feed and the re-subscriptions after handleStatusChange.
C30_NoMessageTwice ==
    \A i \in 1..Len(view.messages), j \in 1..Len(view.messages) :
        view.messages[i] = view.messages[j] => i = j

====
